---- MODULE Spec2Model ----
(***************************************************************************)
(* The Tomodachi pet of src/tomodachi/pet.py as a state machine: one Pet   *)
(* held by a front end (as web.py holds its process-wide _pet), a wall     *)
(* clock, and one action per public method of Pet, each action the whole   *)
(* method, the caring event and the mortality evaluation it ends with      *)
(* included.  Time is counted in whole seconds.                            *)
(***************************************************************************)
EXTENDS Integers, Sequences, FiniteSets, TLC

VARIABLES
    pet,     \* the Pet: a record of the dataclass' eleven fields
    prev,    \* the Pet as it was before the last operation
    now,     \* the wall clock, datetime.now(timezone.utc), in seconds
    op,      \* the operation the last step performed
    arg,     \* its integer argument (0 when it takes none)
    ret,     \* what it returned: "none", "true", "false", or "raise"
    rec,     \* the record the last from_dict was given
    origin,  \* where the Pet comes from: "default" (Pet() and the operations on
             \* it), "constructed" (Pet(...) with fields given) or "loaded"
    prev_origin, \* the origin of the Pet before the last operation
    steps,   \* the number of operations performed
    polls,   \* the tick_realtime calls made: the time of each and the minutes
             \* it passed to tick
    line,    \* the command line handle_command was given: a sequence of tokens
    reply,   \* what handle_command returned: (should_quit, message)
    files,   \* the files Pet.save writes and Pet.load reads, by path
    heap,    \* the Pet instances the web process has created
    global_pet,  \* web.py's global _pet: 0 for None, else an index into heap
    pc,      \* for each request thread of the web server, where it stands
    req      \* for each request thread, the request it serves and its locals

clivars == <<line, reply, files>>
webvars == <<heap, global_pet, pc, req>>
vars ==
    <<pet, prev, now, op, arg, ret, rec, origin, prev_origin, steps, polls, clivars,
      webvars>>

(***************************************************************************)
(* Bounds of the model.                                                    *)
(***************************************************************************)
\* operations per behaviour
MaxSteps == 2

\* magnitude of the "very large" and "very negative" arguments
BigArg == 1000
\* sleep is compared over the hours -MaxHours..MaxHours
MaxHours == 5

(***************************************************************************)
(* IEEE-754 binary64 arithmetic, as far as pet.py uses it.  Python floats  *)
(* are binary64 and every operation rounds to nearest, ties to even.  A    *)
(* non-negative double is [m |-> mantissa, e |-> exponent], the value      *)
(* m * 2^e, with m a 53-bit natural number (or zero) held as a sequence of *)
(* 15-bit limbs, least significant first, because the model checker's      *)
(* integers are 32 bits wide.                                              *)
(***************************************************************************)
LimbBase == 2^15

LimbBits == 15

MantissaBits == 53

RECURSIVE BigTrim(_)
BigTrim(a) ==
    IF a = <<>> THEN <<>>
    ELSE IF a[Len(a)] = 0 THEN BigTrim(SubSeq(a, 1, Len(a) - 1))
    ELSE a

RECURSIVE IntToBig(_)
IntToBig(n) ==
    IF n = 0 THEN <<>> ELSE <<n % LimbBase>> \o IntToBig(n \div LimbBase)

RECURSIVE BigToInt(_)
BigToInt(a) ==
    IF a = <<>> THEN 0 ELSE Head(a) + LimbBase * BigToInt(Tail(a))

\* a * k + c, for a small k and carry c
RECURSIVE BigMulCarry(_, _, _)
BigMulCarry(a, k, c) ==
    IF a = <<>> THEN IntToBig(c)
    ELSE <<(Head(a) * k + c) % LimbBase>>
         \o BigMulCarry(Tail(a), k, (Head(a) * k + c) \div LimbBase)

\* a + b + c, for a carry c
RECURSIVE BigAddCarry(_, _, _)
BigAddCarry(a, b, c) ==
    IF a = <<>> THEN BigMulCarry(b, 1, c)
    ELSE IF b = <<>> THEN BigMulCarry(a, 1, c)
    ELSE <<(Head(a) + Head(b) + c) % LimbBase>>
         \o BigAddCarry(Tail(a), Tail(b), (Head(a) + Head(b) + c) \div LimbBase)

\* one step of long division: the next quotient limb from the running remainder
DivDigit(q, cur, d) == << <<cur \div d>> \o q, cur % d >>

\* <<quotient, remainder>> of a by a small d; the quotient is not trimmed
RECURSIVE BigDivRem(_, _)
BigDivRem(a, d) ==
    IF a = <<>> THEN << <<>>, 0 >>
    ELSE \* the higher limbs first
         LET hi == BigDivRem(Tail(a), d)
         IN  DivDigit(hi[1], hi[2] * LimbBase + Head(a), d)

RECURSIVE BigShl(_, _)
BigShl(a, t) ==
    IF a = <<>> \/ t = 0 THEN a
    ELSE IF t >= LimbBits THEN <<0>> \o BigShl(a, t - LimbBits)
    ELSE BigMulCarry(a, 2^t, 0)

RECURSIVE BigShr(_, _)
BigShr(a, t) ==
    IF a = <<>> \/ t = 0 THEN a
    ELSE IF t >= LimbBits THEN BigShr(Tail(a), t - LimbBits)
    ELSE BigTrim(BigDivRem(a, 2^t)[1])

RECURSIVE SmallBitLen(_)
SmallBitLen(n) == IF n = 0 THEN 0 ELSE 1 + SmallBitLen(n \div 2)

BigBitLen(a) ==
    IF a = <<>> THEN 0 ELSE LimbBits * (Len(a) - 1) + SmallBitLen(a[Len(a)])

\* a < b for trimmed a and b
RECURSIVE BigLess(_, _)
BigLess(a, b) ==
    IF Len(a) # Len(b) THEN Len(a) < Len(b)
    ELSE IF a = <<>> THEN FALSE
    ELSE IF Tail(a) # Tail(b) THEN BigLess(Tail(a), Tail(b))
    ELSE Head(a) < Head(b)

FZero == [m |-> <<>>, e |-> 0]

\* round to nearest, ties to even: q is the quotient kept, guard the last bit
\* shifted out, low whether any bit below it was set
RoundUpIf(q, guard, low) ==
    IF guard /\ (low \/ (q # <<>> /\ Head(q) % 2 = 1))
    THEN BigMulCarry(q, 1, 1) ELSE q

RoundQuotient(qr, half, sticky) ==
    RoundUpIf(BigTrim(qr[1]), qr[2] >= half, sticky \/ (qr[2] % half # 0))

\* n shifted right by s >= 1 bits and rounded
RECURSIVE ShiftRound(_, _, _)
ShiftRound(n, s, sticky) ==
    IF s > LimbBits
    THEN ShiftRound(Tail(n), s - LimbBits, sticky \/ Head(n) # 0)
    ELSE RoundQuotient(BigDivRem(n, 2^s), 2^(s - 1), sticky)

\* rounding up may carry into a 54th bit
Renormalize(r, e) ==
    IF BigBitLen(r) > MantissaBits
    THEN [m |-> BigShr(r, 1), e |-> e + 1]
    ELSE [m |-> r, e |-> e]

RoundLen(n, e, inexact, len) ==
    IF len <= MantissaBits
    THEN [m |-> BigShl(n, MantissaBits - len), e |-> e - (MantissaBits - len)]
    ELSE Renormalize(ShiftRound(n, len - MantissaBits, inexact),
                     e + (len - MantissaBits))

\* the double nearest to n * 2^e (plus a fraction of 2^e when inexact is TRUE)
RoundBig(n, e, inexact) ==
    IF n = <<>> THEN FZero ELSE RoundLen(n, e, inexact, BigBitLen(n))

\* float(n) for a natural number n
FFromInt(n) == RoundBig(IntToBig(n), 0, FALSE)

RoundDivided(qr, e) == RoundBig(BigTrim(qr[1]), e, qr[2] # 0)

\* x / float(d)
FDivSmall(x, d) ==
    IF x.m = <<>> THEN FZero
    ELSE RoundDivided(BigDivRem(BigShl(x.m, LimbBits), d), x.e - LimbBits)

\* x * float(k)
FMulSmall(x, k) == RoundBig(BigMulCarry(x.m, k, 0), x.e, FALSE)

\* float(k) + x
FAddSmall(x, k) ==
    IF x.m = <<>> THEN FFromInt(k)
    ELSE IF x.e <= 0
         THEN RoundBig(BigAddCarry(x.m, BigShl(IntToBig(k), 0 - x.e), 0), x.e, FALSE)
         ELSE RoundBig(BigAddCarry(BigShl(x.m, x.e), IntToBig(k), 0), 0, FALSE)

\* x < y
FLess(x, y) ==
    IF y.m = <<>> THEN FALSE
    ELSE IF x.m = <<>> THEN TRUE
    ELSE IF x.e # y.e THEN x.e < y.e
    ELSE BigLess(x.m, y.m)

\* max(x, y) as Python computes it: y when y > x, else x
FMax(x, y) == IF FLess(x, y) THEN y ELSE x

\* int(x): truncation toward zero
FTrunc(x) ==
    IF x.e >= 0 THEN BigToInt(BigShl(x.m, x.e)) ELSE BigToInt(BigShr(x.m, 0 - x.e))

\* whether x is a whole number
FIsWhole(x) ==
    x.e >= 0 \/ BigShl(BigShr(x.m, 0 - x.e), 0 - x.e) = x.m

GeTruncated(n, whole, x) == n > whole \/ (n = whole /\ FIsWhole(x))

\* float(n) >= x for an integer n
IntGeF(n, x) == IF n < 0 THEN FALSE ELSE GeTruncated(n, FTrunc(x), x)

(***************************************************************************)
(* Python values.                                                          *)
(***************************************************************************)
\* max(a, b) and min(a, b) of two integers
PyMax(a, b) == IF b > a THEN b ELSE a

PyMin(a, b) == IF b < a THEN b ELSE a

\* A timestamp field (last_cared, last_tick) holds None, the ISO-8601 string of
\* an aware UTC datetime, a falsy value that is not None ("" or 0, which only a
\* loaded record can bring), or a truthy value datetime.fromisoformat rejects.
NoneTs == [tag |-> "none", t |-> 0]

EmptyTs == [tag |-> "empty", t |-> 0]

BadTs == [tag |-> "bad", t |-> 0]

\* datetime.isoformat() of the instant t
isoformat(t) == [tag |-> "iso", t |-> t]

\* bool(ts), as in "if not self.last_cared"
Truthy(ts) == ts.tag \in {"iso", "bad"}

\* whether datetime.fromisoformat(ts) returns (it raises otherwise)
Parses(ts) == ts.tag = "iso"

\* datetime.fromisoformat(ts), where it returns
fromisoformat(ts) == ts.t

\* A value of a loaded record (JSON): null, an integer, a boolean (n is 0 or 1)
\* or a string.  The string "digits" stands for the decimal digits of n, which
\* int() parses to n; "iso" for the ISO-8601 text of the instant n; any other
\* string is the text s itself.
JNull == [k |-> "null", n |-> 0, s |-> ""]

JInt(n) == [k |-> "int", n |-> n, s |-> ""]

JBool(b) == [k |-> "bool", n |-> IF b THEN 1 ELSE 0, s |-> ""]

JStr(s) == [k |-> "str", n |-> 0, s |-> s]

JDigits(n) == [k |-> "str", n |-> n, s |-> "digits"]

JIso(t) == [k |-> "str", n |-> t, s |-> "iso"]

\* int(j): [ok |-> whether it returns, v |-> its value]
PyInt(j) ==
    CASE j.k = "int"  -> [ok |-> TRUE, v |-> j.n]
      [] j.k = "bool" -> [ok |-> TRUE, v |-> j.n]
      [] j.k = "str"  -> [ok |-> j.s = "digits", v |-> j.n]
      [] OTHER        -> [ok |-> FALSE, v |-> 0]

\* bool(j)
PyBool(j) ==
    CASE j.k = "int"  -> j.n # 0
      [] j.k = "bool" -> j.n = 1
      [] j.k = "str"  -> j.s # ""
      [] OTHER        -> FALSE

\* the timestamp field a record's value becomes (from_dict stores it as it is)
TsOfJson(j) ==
    CASE j.k = "null" -> NoneTs
      [] j.k = "str"  -> IF j.s = "iso" THEN isoformat(j.n)
                         ELSE IF j.s = "" THEN EmptyTs ELSE BadTs
      [] OTHER        -> IF j.n = 0 THEN EmptyTs ELSE BadTs

\* the value asdict() gives for a timestamp field
JsonOfTs(ts) ==
    CASE ts.tag = "none"  -> JNull
      [] ts.tag = "iso"   -> JIso(ts.t)
      [] ts.tag = "empty" -> JStr("")
      [] OTHER            -> JStr("abc")

\* data.get(key) with no default given: None for an absent key
Get_none(d, key, default) == IF key \in DOMAIN d THEN d[key] ELSE JNull

\* data.get(key, default)
Get(d, key, default) == IF key \in DOMAIN d THEN d[key] ELSE default

(***************************************************************************)
(* Pet.                                                                    *)
(***************************************************************************)
\* _clamp without its upper bound
clamp_unbounded(v) == PyMax(0, v)

clamp(v) == PyMax(0, PyMin(100, v))

\* Pet(): the dataclass' defaults
DefaultPet ==
    [name |-> "Tomo", hunger |-> 50, happiness |-> 50, energy |-> 50,
     alive |-> TRUE, sick |-> FALSE, cumulative_play_seconds |-> 0,
     care_score |-> 50, last_cared |-> NoneTs, litter_dirt |-> 0,
     last_tick |-> NoneTs]

update_last_cared(p, t) == [p EXCEPT !.last_cared = isoformat(t)]

\* 3.0 + (float(care_score) / 100.0) * 27.0, for a care_score >= 0
DeathThresholdDays(care_score) ==
    FAddSmall(FMulSmall(FDivSmall(FFromInt(care_score), 100), 27), 3)

compute_death_threshold_days(p) == DeathThresholdDays(p.care_score)

\* threshold_days * 24 * 3600
ThresholdSecondsOf(threshold_days) == FMulSmall(FMulSmall(threshold_days, 24), 3600)

\* the care scores clamp lets through
CareScores == 0..100

\* threshold_days * 24 * 3600 for each of them, computed once
ThresholdTable == [cs \in CareScores |-> ThresholdSecondsOf(DeathThresholdDays(cs))]

ThresholdSeconds(p) ==
    IF p.care_score \in CareScores
    THEN ThresholdTable[p.care_score]
    ELSE ThresholdSecondsOf(compute_death_threshold_days(p))

\* check_alive taking a last_cared that does not parse for neglect
check_alive_strict(p, t) ==
    IF ~p.alive THEN p
    ELSE IF ~Truthy(p.last_cared) THEN update_last_cared(p, t)
    ELSE IF ~Parses(p.last_cared) THEN [p EXCEPT !.alive = FALSE]
    ELSE IF IntGeF(t - fromisoformat(p.last_cared), ThresholdSeconds(p))
         THEN [p EXCEPT !.alive = FALSE]
         ELSE p

\* check_alive at the instant t; a last_cared that does not parse raises inside
\* the try block and is passed over
check_alive(p, t) ==
    IF ~p.alive THEN p
    ELSE IF ~Truthy(p.last_cared) THEN update_last_cared(p, t)
    ELSE IF ~Parses(p.last_cared) THEN p
    ELSE IF IntGeF(t - fromisoformat(p.last_cared), ThresholdSeconds(p))
         THEN [p EXCEPT !.alive = FALSE]
         ELSE p

\* _on_cared evaluating mortality before it stamps last_cared
on_cared_check_first(p, amount, t) ==
    IF ~p.alive THEN p
    ELSE IF check_alive(p, t).alive
         THEN update_last_cared([p EXCEPT !.care_score = clamp(p.care_score + amount)], t)
         ELSE check_alive(p, t)

\* _on_cared: update_last_cared and check_alive each read the clock; the two
\* readings are the same whole second
on_cared(p, amount, t) ==
    IF ~p.alive THEN p
    ELSE check_alive(
             update_last_cared([p EXCEPT !.care_score = clamp(p.care_score + amount)], t),
             t)

\* feed taking off half the amount
feed_half(p, amount, t) ==
    IF ~p.alive THEN p
    ELSE on_cared([p EXCEPT !.hunger = clamp(p.hunger - amount \div 2),
                            !.happiness = clamp(p.happiness + 5)], 3, t)

feed(p, amount, t) ==
    IF ~p.alive THEN p
    ELSE on_cared([p EXCEPT !.hunger = clamp(p.hunger - amount),
                            !.happiness = clamp(p.happiness + 5)], 3, t)

add_play_seconds(p, seconds) ==
    IF ~p.alive THEN p
    ELSE [p EXCEPT !.cumulative_play_seconds = p.cumulative_play_seconds + seconds]

\* lines 57-62 of play, for an accepted request
play_accepted(p, minutes, cost, t) ==
    on_cared(add_play_seconds([p EXCEPT !.happiness = clamp(p.happiness + minutes \div 2),
                                        !.energy = clamp(p.energy - cost),
                                        !.hunger = clamp(p.hunger + minutes \div 3)],
                              minutes * 60),
             2, t)

\* play without the early return of an energy below the cost
play_unchecked(p, minutes, t) ==
    IF ~p.alive THEN [pet |-> p, ret |-> FALSE]
    ELSE [pet |-> play_accepted(p, minutes, PyMax(1, minutes \div 2), t),
          ret |-> p.energy >= PyMax(1, minutes \div 2)]

\* play charging minutes // 20 of energy
play_cheap(p, minutes, t) ==
    IF ~p.alive THEN [pet |-> p, ret |-> FALSE]
    ELSE IF p.energy < PyMax(1, minutes \div 2) THEN [pet |-> p, ret |-> FALSE]
    ELSE [pet |-> play_accepted(p, minutes, minutes \div 20, t), ret |-> TRUE]

\* play: [pet |-> the Pet afterwards, ret |-> the value returned]
play(p, minutes, t) ==
    IF ~p.alive THEN [pet |-> p, ret |-> FALSE]
    ELSE IF p.energy < PyMax(1, minutes \div 2) THEN [pet |-> p, ret |-> FALSE]
    ELSE [pet |-> play_accepted(p, minutes, PyMax(1, minutes \div 2), t), ret |-> TRUE]

\* sleep without its alive guard
sleep_unguarded(p, hours, t) ==
    on_cared([p EXCEPT !.energy = clamp(p.energy + hours * 25),
                       !.hunger = clamp(p.hunger + hours * 5)], 1, t)

\* sleep that stills hunger instead of raising it
sleep_sated(p, hours, t) ==
    IF ~p.alive THEN p
    ELSE on_cared([p EXCEPT !.energy = clamp(p.energy + hours * 25),
                            !.hunger = clamp(p.hunger - hours * 5)], 1, t)

sleep(p, hours, t) ==
    IF ~p.alive THEN p
    ELSE on_cared([p EXCEPT !.energy = clamp(p.energy + hours * 25),
                            !.hunger = clamp(p.hunger + hours * 5)], 1, t)

\* clean_litter that also clears sickness
clean_litter_cures(p, t) ==
    IF ~p.alive THEN p
    ELSE on_cared([p EXCEPT !.litter_dirt = 0, !.sick = FALSE,
                            !.happiness = clamp(p.happiness + 8)], 2, t)

clean_litter(p, t) ==
    IF ~p.alive THEN p
    ELSE on_cared([p EXCEPT !.litter_dirt = 0,
                            !.happiness = clamp(p.happiness + 8)], 2, t)

\* discipline that does not count as care
discipline_uncounted(p, t) ==
    IF ~p.alive THEN p
    ELSE [p EXCEPT !.happiness = clamp(p.happiness - 5)]

discipline(p, t) ==
    IF ~p.alive THEN p
    ELSE on_cared([p EXCEPT !.happiness = clamp(p.happiness - 5)], 2, t)

give_attention(p, t) ==
    IF ~p.alive THEN p
    ELSE on_cared([p EXCEPT !.happiness = clamp(p.happiness + 8),
                            !.energy = clamp(p.energy - 1)], 2, t)

\* sick_care worth three points of care_score
sick_care_three(p, t) ==
    IF ~p.alive THEN p
    ELSE on_cared([p EXCEPT !.sick = FALSE,
                            !.energy = clamp(p.energy + 15),
                            !.happiness = clamp(p.happiness + 5)], 3, t)

sick_care(p, t) ==
    IF ~p.alive THEN p
    ELSE on_cared([p EXCEPT !.sick = FALSE,
                            !.energy = clamp(p.energy + 15),
                            !.happiness = clamp(p.happiness + 5)], 4, t)

\* the literal 0.016: the double nearest to 16/1000
MinHours == FDivSmall(FFromInt(16), 1000)

\* hours_f floored at one hour
HoursF_hour(minutes) ==
    IF minutes <= 0 THEN FFromInt(1) ELSE FMax(MinHours, FDivSmall(FFromInt(minutes), 60))

\* max(0.016, float(minutes) / 60.0); a quotient that is not positive is below 0.016
HoursF(minutes) ==
    IF minutes <= 0 THEN MinHours ELSE FMax(MinHours, FDivSmall(FFromInt(minutes), 60))

\* int(k * hours_f)
IntTimes(k, hours_f) == FTrunc(FMulSmall(hours_f, k))

\* lines 121-126 of tick: the decay of one tick
tick_decay(p, hours_f) ==
    [p EXCEPT !.hunger = clamp(p.hunger + IntTimes(5, hours_f)),
              !.happiness = clamp(p.happiness - IntTimes(2, hours_f)),
              !.energy = clamp(p.energy - IntTimes(5, hours_f)),
              !.litter_dirt = clamp(p.litter_dirt + IntTimes(4, hours_f))]

\* lines 129-132 of tick: the penalty of a dirty litter box
tick_litter_penalty(p, hours_f) ==
    IF p.litter_dirt >= 80
    THEN [p EXCEPT !.happiness = clamp(p.happiness - IntTimes(3, hours_f))]
    ELSE IF p.litter_dirt >= 50
         THEN [p EXCEPT !.happiness = clamp(p.happiness - IntTimes(1, hours_f))]
         ELSE p

\* the sickness conditions with hunger alone
tick_sickness_hunger(p) == IF p.hunger >= 90 THEN [p EXCEPT !.sick = TRUE] ELSE p

\* lines 135-136 of tick: the sickness conditions
tick_sickness(p) ==
    IF p.hunger >= 90 \/ p.energy <= 5 \/ p.litter_dirt >= 90
    THEN [p EXCEPT !.sick = TRUE] ELSE p

\* tick choosing the litter penalty before the litter of this tick is added
tick_hours_stale(p, hours_f) ==
    tick_sickness(tick_decay(tick_litter_penalty(p, hours_f), hours_f))

tick_hours(p, hours_f) == tick_sickness(tick_litter_penalty(tick_decay(p, hours_f), hours_f))

\* tick that ends with a mortality evaluation, the clock at its first reading
tick_checked(p, minutes) ==
    IF ~p.alive THEN p ELSE check_alive(tick_hours(p, HoursF(minutes)), 0)

tick(p, minutes) == IF ~p.alive THEN p ELSE tick_hours(p, HoursF(minutes))

\* max(0, int((now_dt - lt).total_seconds() / 60.0))
ElapsedMinutes(seconds) ==
    IF seconds <= 0 THEN 0 ELSE PyMax(0, FTrunc(FDivSmall(FFromInt(seconds), 60)))

\* tick_realtime stamping last_tick only after a tick
tick_elapsed_unstamped(p, elapsed_min, t) ==
    IF elapsed_min > 0 THEN [tick(p, elapsed_min) EXCEPT !.last_tick = isoformat(t)] ELSE p

\* lines 160-162 of tick_realtime
tick_elapsed(p, elapsed_min, t) ==
    [(IF elapsed_min > 0 THEN tick(p, elapsed_min) ELSE p) EXCEPT !.last_tick = isoformat(t)]

tick_realtime(p, t) ==
    IF ~Truthy(p.last_tick) THEN [p EXCEPT !.last_tick = isoformat(t)]
    ELSE tick_elapsed(p,
                      ElapsedMinutes(t - (IF Parses(p.last_tick)
                                          THEN fromisoformat(p.last_tick) ELSE t)),
                      t)

\* asdict(self): every field, as the value json.dumps writes
to_dict(p) ==
    [name |-> JStr(p.name), hunger |-> JInt(p.hunger), happiness |-> JInt(p.happiness),
     energy |-> JInt(p.energy), alive |-> JBool(p.alive), sick |-> JBool(p.sick),
     cumulative_play_seconds |-> JInt(p.cumulative_play_seconds),
     care_score |-> JInt(p.care_score), last_cared |-> JsonOfTs(p.last_cared),
     litter_dirt |-> JInt(p.litter_dirt), last_tick |-> JsonOfTs(p.last_tick)]

\* the kwargs of from_dict and the Pet made of them: [ok |-> whether every int()
\* returns, pet |-> cls(**kwargs)]; the name of a record is a string
kwargs(d) ==
    LET hunger     == PyInt(Get(d, "hunger", JInt(50)))
        happiness  == PyInt(Get(d, "happiness", JInt(50)))
        energy     == PyInt(Get(d, "energy", JInt(50)))
        play_secs  == PyInt(Get(d, "cumulative_play_seconds", JInt(0)))
        care_score == PyInt(Get(d, "care_score", JInt(50)))
        litter     == PyInt(Get(d, "litter_dirt", JInt(0)))
    IN  [ok  |-> hunger.ok /\ happiness.ok /\ energy.ok /\ play_secs.ok
                 /\ care_score.ok /\ litter.ok,
         pet |-> [name                    |-> Get(d, "name", JStr("Tomo")).s,
                  hunger                  |-> hunger.v,
                  happiness               |-> happiness.v,
                  energy                  |-> energy.v,
                  alive                   |-> PyBool(Get(d, "alive", JBool(TRUE))),
                  sick                    |-> PyBool(Get(d, "sick", JBool(FALSE))),
                  cumulative_play_seconds |-> play_secs.v,
                  care_score              |-> care_score.v,
                  last_cared              |-> TsOfJson(Get(d, "last_cared", JNull)),
                  litter_dirt             |-> litter.v,
                  last_tick               |-> TsOfJson(Get(d, "last_tick", JNull))]]

\* lines 219-221 of from_dict: pet.check_alive() on the Pet just made
checked(k, t) == IF k.ok THEN [ok |-> TRUE, pet |-> check_alive(k.pet, t)] ELSE k

\* from_dict reading name, hunger, happiness and energy only
from_dict_old(d, t) ==
    checked([ok  |-> kwargs(d).ok,
             pet |-> [DefaultPet EXCEPT !.name = kwargs(d).pet.name,
                                        !.hunger = kwargs(d).pet.hunger,
                                        !.happiness = kwargs(d).pet.happiness,
                                        !.energy = kwargs(d).pet.energy]], t)

\* from_dict at the instant t: [ok |-> whether it returns (an int() that raises
\* ends it), pet |-> the Pet it returns]
from_dict(d, t) == checked(kwargs(d), t)

(***************************************************************************)
(* Inputs.                                                                 *)
(***************************************************************************)
\* The neglect window the documentation gives, in seconds: 3 days at
\* care_score 0, 30 days at care_score 100, linear between (27 days / 100 is
\* 23328 s).  The clock, the constructed Pets and the loaded records are
\* placed around it.
NeglectSeconds(cs) == 259200 + 23328 * cs

FeedAmounts == {0 - BigArg, 30, BigArg}

PlayMinutes == {0 - BigArg, 10, 15, BigArg}

PlaySeconds == {0 - 60, 600}

SleepHours == {0 - BigArg, 3, BigArg}

TickMinutes == {0 - BigArg, 0, 5, 60, BigArg}

\* how far the clock moves in one step: an hour, or up to one second before,
\* onto, or one second past the documented end of the neglect window
ClockJumps ==
    {3600} \cup
    IF Parses(pet.last_cared)
    THEN {d \in {fromisoformat(pet.last_cared) + NeglectSeconds(pet.care_score) + k - now :
                    k \in {0 - 1, 0, 1}} : d > 0}
    ELSE {}

\* Pet(care_score=0, last_cared=...), last cared for k seconds longer ago
\* than the documented neglect window
NeglectedPet(k) ==
    [DefaultPet EXCEPT !.care_score = 0,
                       !.last_cared = isoformat(0 - NeglectSeconds(0) - k)]

\* a default Pet that was fed once (its care_score is 53 since), k seconds
\* longer ago than the documented neglect window
FedPet(k) == feed(DefaultPet, 30, 0 - NeglectSeconds(53) - k)

\* a living Pet with attributes at the ends of their range
CornerPet ==
    [DefaultPet EXCEPT !.name = "Test", !.hunger = 100, !.happiness = 100,
                       !.energy = 5, !.litter_dirt = 100, !.sick = TRUE,
                       !.last_cared = isoformat(0 - 60)]

\* a Pet that has died
DeadPet ==
    [DefaultPet EXCEPT !.alive = FALSE, !.hunger = 70,
                       !.last_cared = isoformat(0 - 3000000),
                       !.last_tick = isoformat(0 - 60)]

\* the Pets that come from Pet() by the operations alone
DefaultPets == {DefaultPet, FedPet(0), FedPet(1)}

\* a complete record: what save writes for a new Pet
BaseRecord == to_dict(DefaultPet)

\* records whose last_cared lies at the documented end of the neglect window, one
\* second short of it, and one second past it
StaleRecords ==
    {[BaseRecord EXCEPT !.care_score = JInt(cs),
                        !.last_cared = JIso(now - NeglectSeconds(cs) - k)] :
        cs \in {0, 7}, k \in {0 - 1, 0, 1}}

\* records with attributes at and beyond the ends of their range, and a dead Pet's
CornerRecords ==
    {[BaseRecord EXCEPT !.hunger = JInt(0), !.happiness = JInt(0),
                        !.energy = JInt(4), !.litter_dirt = JInt(79),
                        !.care_score = JInt(100), !.last_cared = JIso(now)],
     [BaseRecord EXCEPT !.alive = JBool(FALSE), !.hunger = JInt(70),
                        !.last_cared = JIso(now - 60), !.last_tick = JIso(now - 60)],
     [BaseRecord EXCEPT !.hunger = JInt(500), !.energy = JInt(0 - 3)]}

IntKeys == {"hunger", "care_score", "litter_dirt"}

\* values of the wrong shape for a field that holds an integer
WrongShapes == {JNull, JStr("abc")}

\* records with one field of the wrong shape
MalformedRecords ==
    {[BaseRecord EXCEPT ![key] = j] : key \in IntKeys, j \in WrongShapes}
    \cup {[BaseRecord EXCEPT !.hunger = JDigits(42)]}
    \cup {[BaseRecord EXCEPT !.alive = j] : j \in {JNull, JStr("abc")}}
    \cup {[BaseRecord EXCEPT !.last_cared = j] : j \in {JStr("abc"), JStr("")}}

\* records of an older schema (keys absent) and of a newer one (an unknown key)
PartialRecords ==
    {[key \in {} |-> JNull],
     [name |-> JStr("Test"), hunger |-> JInt(60), happiness |-> JInt(40),
      energy |-> JInt(30)],
     [key \in DOMAIN BaseRecord \cup {"version"} |->
        IF key = "version" THEN JInt(2) ELSE BaseRecord[key]]}

\* records of a living Pet whose last_tick lies an hour back, and an hour ahead
\* of the clock (written by a machine whose clock ran ahead)
SkewedRecords ==
    {[BaseRecord EXCEPT !.hunger = JInt(88), !.last_cared = JIso(now),
                        !.last_tick = JIso(now - 3600)],
     [BaseRecord EXCEPT !.hunger = JInt(88), !.last_cared = JIso(now),
                        !.last_tick = JIso(now - 7199)],
     [BaseRecord EXCEPT !.last_cared = JIso(now), !.last_tick = JIso(now + 3600)]}

\* records of a living Pet whose litter box is an hour short of a penalty tier
LitterRecords ==
    {[BaseRecord EXCEPT !.litter_dirt = JInt(dirt), !.last_cared = JIso(now)] :
        dirt \in {46, 78}}

LoadRecords ==
    {to_dict(pet)} \cup StaleRecords \cup CornerRecords \cup MalformedRecords
    \cup PartialRecords \cup SkewedRecords \cup LitterRecords

(***************************************************************************)
(* The state machine.                                                      *)
(***************************************************************************)
\* a file of the given content, and a path with no file
File(data) == [exists |-> TRUE, data |-> data]
NoFile == [exists |-> FALSE, data |-> [key \in {} |-> JNull]]

\* a message with what is interpolated into it: a name or path, and numbers
Message(text, name, nums) == [text |-> text, name |-> name, nums |-> nums]

\* the result of handle_command: the tuple it returns, or the exception it
\* lets through
Returned(quit, msg) == [quit |-> quit, msg |-> msg, raised |-> FALSE]
Raised == [quit |-> FALSE, msg |-> Message("", "", <<>>), raised |-> TRUE]

\* the request threads of the web server
NumThreads == 2
Threads == 1..NumThreads

\* a thread that serves no request
NoRequest ==
    [endpoint |-> "", pet |-> 0, calls |-> <<>>, alive |-> TRUE, ok |-> TRUE,
     response |-> ""]

\* the web server just started: no Pet yet, no request
UnusedWeb ==
    /\ heap = <<>>
    /\ global_pet = 0
    /\ pc = [thread \in Threads |-> "idle"]
    /\ req = [thread \in Threads |-> NoRequest]

\* no command given yet, no file written, the web server just started
FrontEndsIdle ==
    /\ polls = <<>>
    /\ line = <<>>
    /\ reply = Returned(FALSE, Message("", "", <<>>))
    /\ files = [path \in {"pet.json"} |-> NoFile]
    /\ UnusedWeb

\* the Pets a front end starts with: those, and Pets constructed from fields
Init ==
    /\ FrontEndsIdle
    /\ pet \in DefaultPets \cup {NeglectedPet(1), CornerPet, DeadPet}
    /\ prev = pet
    /\ now = 0
    /\ op = "init"
    /\ arg = 0
    /\ ret = "none"
    /\ rec = [key \in {} |-> JNull]
    /\ origin = IF pet \in DefaultPets THEN "default" ELSE "constructed"
    /\ prev_origin = origin
    /\ steps = 0

\* the entry of a tick_realtime call at the instant t: tick is given
\* elapsed_min when that is positive, and is not called otherwise
Polled(p, t) ==
    [at |-> t,
     minutes |-> IF Truthy(p.last_tick) /\ Parses(p.last_tick)
                 THEN ElapsedMinutes(t - fromisoformat(p.last_tick)) ELSE 0]

\* what every operation does to the history variables
Called(name, a) ==
    /\ steps < MaxSteps
    /\ prev' = pet
    /\ prev_origin' = origin
    /\ op' = name
    /\ arg' = a
    /\ steps' = steps + 1
    /\ polls' = IF name = "tick_realtime" THEN Append(polls, Polled(pet, now)) ELSE polls
    /\ UNCHANGED <<clivars, webvars>>

Feed(amount) ==
    /\ Called("feed", amount)
    /\ pet' = feed(pet, amount, now)
    /\ ret' = "none"
    /\ UNCHANGED <<now, rec, origin>>

Play(minutes) ==
    /\ Called("play", minutes)
    /\ \E r \in {play(pet, minutes, now)} :
          /\ pet' = r.pet
          /\ ret' = IF r.ret THEN "true" ELSE "false"
    /\ UNCHANGED <<now, rec, origin>>

AddPlaySeconds(seconds) ==
    /\ Called("add_play_seconds", seconds)
    /\ pet' = add_play_seconds(pet, seconds)
    /\ ret' = "none"
    /\ UNCHANGED <<now, rec, origin>>

Sleep(hours) ==
    /\ Called("sleep", hours)
    /\ pet' = sleep(pet, hours, now)
    /\ ret' = "none"
    /\ UNCHANGED <<now, rec, origin>>

CleanLitter ==
    /\ Called("clean_litter", 0)
    /\ pet' = clean_litter(pet, now)
    /\ ret' = "none"
    /\ UNCHANGED <<now, rec, origin>>

Discipline ==
    /\ Called("discipline", 0)
    /\ pet' = discipline(pet, now)
    /\ ret' = "none"
    /\ UNCHANGED <<now, rec, origin>>

GiveAttention ==
    /\ Called("give_attention", 0)
    /\ pet' = give_attention(pet, now)
    /\ ret' = "none"
    /\ UNCHANGED <<now, rec, origin>>

SickCare ==
    /\ Called("sick_care", 0)
    /\ pet' = sick_care(pet, now)
    /\ ret' = "none"
    /\ UNCHANGED <<now, rec, origin>>

Tick(minutes) ==
    /\ Called("tick", minutes)
    /\ pet' = tick(pet, minutes)
    /\ ret' = "none"
    /\ UNCHANGED <<now, rec, origin>>

TickRealtime ==
    /\ Called("tick_realtime", 0)
    /\ pet' = tick_realtime(pet, now)
    /\ ret' = "none"
    /\ UNCHANGED <<now, rec, origin>>

CheckAlive ==
    /\ Called("check_alive", 0)
    /\ pet' = check_alive(pet, now)
    /\ ret' = "none"
    /\ UNCHANGED <<now, rec, origin>>

\* The front end replaces its Pet by Pet.from_dict(data); when from_dict raises,
\* the assignment does not happen and the Pet it held stays.
Load(data) ==
    /\ Called("load", 0)
    /\ \E r \in {from_dict(data, now)} :
          /\ pet' = IF r.ok THEN r.pet ELSE pet
          /\ ret' = IF r.ok THEN "none" ELSE "raise"
          /\ origin' = IF r.ok THEN "loaded" ELSE origin
    /\ rec' = data
    /\ UNCHANGED now

\* wall-clock time passes between two calls
Advance(seconds) ==
    /\ Called("advance", seconds)
    /\ now' = now + seconds
    /\ ret' = "none"
    /\ UNCHANGED <<pet, rec, origin>>

Next ==
    \/ \E amount \in FeedAmounts : Feed(amount)
    \/ \E minutes \in PlayMinutes : Play(minutes)
    \/ \E seconds \in PlaySeconds : AddPlaySeconds(seconds)
    \/ \E hours \in SleepHours : Sleep(hours)
    \/ CleanLitter
    \/ Discipline
    \/ GiveAttention
    \/ SickCare
    \/ \E minutes \in TickMinutes : Tick(minutes)
    \/ TickRealtime
    \/ CheckAlive
    \/ \E data \in LoadRecords : Load(data)
    \/ \E seconds \in ClockJumps : Advance(seconds)

Spec == Init /\ [][Next]_vars

(***************************************************************************)
(* Loading alone: from_dict applied once to a record that holds any subset *)
(* of the keys of a complete record, with or without a key from_dict does  *)
(* not know.                                                               *)
(***************************************************************************)
\* complete records written at the instant t: of a living Pet cared for a
\* minute before, of a dead Pet, and of a living Pet last cared for longer ago
\* than any neglect window
SchemaSources(t) ==
    {[name |-> JStr("Test"), hunger |-> JInt(60), happiness |-> JInt(40),
      energy |-> JInt(30), alive |-> JBool(a), sick |-> JBool(TRUE),
      cumulative_play_seconds |-> JInt(600), care_score |-> JInt(7),
      last_cared |-> JIso(t - ago), litter_dirt |-> JInt(20),
      last_tick |-> JIso(t - 60)] :
        a \in {TRUE}, ago \in {60, 3000000}}
    \cup {[BaseRecord EXCEPT !.alive = JBool(FALSE), !.hunger = JInt(70),
                             !.last_cared = JIso(t - 60)]}

\* the sources cut down to the keys in keys, with a key of a newer schema when
\* extra
SchemaRecords(t) ==
    {[key \in keys \cup (IF extra THEN {"version"} ELSE {}) |->
         IF key = "version" THEN JInt(2) ELSE d[key]] :
        d \in SchemaSources(t), keys \in SUBSET DOMAIN BaseRecord, extra \in BOOLEAN}

SchemaInit ==
    /\ FrontEndsIdle
    /\ pet = DefaultPet
    /\ prev = pet
    /\ now = 0
    /\ op = "init"
    /\ arg = 0
    /\ ret = "none"
    /\ rec \in SchemaRecords(0)
    /\ origin = "default"
    /\ prev_origin = origin
    /\ steps = 0

\* the record is loaded, once
SchemaSpec == SchemaInit /\ [][steps = 0 /\ Load(rec)]_vars

(***************************************************************************)
(* The command line of src/tomodachi/cli.py.  A command line is a sequence *)
(* of tokens, words and runs of white space; handle_command works on the   *)
(* Pet it is given.                                                        *)
(***************************************************************************)
\* command.strip().split(): the words, the white space dropped
split(command) == SelectSeq(command, LAMBDA w : w # " ")

\* parts[0].lower(): the words with capitals are changed, the others are not
lower(w) ==
    CASE w = "FEED" -> "feed"
      [] w = "Status" -> "status"
      [] w = "Dance" -> "dance"
      [] OTHER -> w

\* int(args[0]) if args else default: [ok |-> whether int() returns, v |-> the
\* number]; int() reads the words that are numbers and raises on the others
IntArg(args, default) ==
    CASE args = <<>> -> [ok |-> TRUE, v |-> default]
      [] args # <<>> /\ args[1] = "30" -> [ok |-> TRUE, v |-> 30]
      [] args # <<>> /\ args[1] = "15" -> [ok |-> TRUE, v |-> 15]
      [] args # <<>> /\ args[1] = "3" -> [ok |-> TRUE, v |-> 3]
      [] args # <<>> /\ args[1] = "-1000" -> [ok |-> TRUE, v |-> 0 - BigArg]
      [] OTHER -> [ok |-> FALSE, v |-> 0]

\* args[0] if args else "pet.json"
PathArg(args) == IF args = <<>> THEN "pet.json" ELSE args[1]

\* status(pet): the status line of the Pet
status(p) ==
    Message("{name} ({alive}) - Hunger: {}/100, Happiness: {}/100, Energy: {}/100, Care: {}/100",
            p.name, <<IF p.alive THEN 1 ELSE 0, p.hunger, p.happiness, p.energy, p.care_score>>)

\* what a command leaves: the Pet, the result, the files
Handled(p, result, fs) == [pet |-> p, reply |-> result, files |-> fs]

\* Pet.load(path) at the instant t: [ok |-> whether it returns (a missing file
\* and a from_dict that raises end it), pet |-> the Pet read]
load(path, fs, t) ==
    IF path \in DOMAIN fs /\ fs[path].exists
    THEN from_dict(fs[path].data, t)
    ELSE [ok |-> FALSE, pet |-> DefaultPet]

\* lines 20-54 of handle_command: the verb cmd with its arguments; the int()
\* of feed, play and sleep may raise; load copies name, hunger, happiness and
\* energy from the Pet loaded
handle_verb(p, cmd, args, fs, t) ==
    CASE cmd = "status" -> Handled(p, Returned(FALSE, status(p)), fs)
      [] cmd = "feed" ->
            IF ~IntArg(args, 20).ok THEN Handled(p, Raised, fs)
            ELSE Handled(feed(p, IntArg(args, 20).v, t),
                         Returned(FALSE, Message("You fed {name}.", p.name, <<>>)), fs)
      [] cmd = "play" ->
            IF ~IntArg(args, 10).ok THEN Handled(p, Raised, fs)
            ELSE Handled(play(p, IntArg(args, 10).v, t).pet,
                         Returned(FALSE,
                                  Message(IF play(p, IntArg(args, 10).v, t).ret
                                          THEN "You played with your pet."
                                          ELSE "Pet is too tired to play.", "", <<>>)),
                         fs)
      [] cmd = "sleep" ->
            IF ~IntArg(args, 2).ok THEN Handled(p, Raised, fs)
            ELSE Handled(sleep(p, IntArg(args, 2).v, t),
                         Returned(FALSE, Message("{name} slept for {hrs} hours.", p.name,
                                                 <<IntArg(args, 2).v>>)),
                         fs)
      [] cmd = "save" ->
            Handled(p, Returned(FALSE, Message("Saved to {path}", PathArg(args), <<>>)),
                    (PathArg(args) :> File(to_dict(p))) @@ fs)
      [] cmd = "load" ->
            IF load(PathArg(args), fs, t).ok
            THEN Handled([p EXCEPT !.name = load(PathArg(args), fs, t).pet.name,
                                   !.hunger = load(PathArg(args), fs, t).pet.hunger,
                                   !.happiness = load(PathArg(args), fs, t).pet.happiness,
                                   !.energy = load(PathArg(args), fs, t).pet.energy],
                         Returned(FALSE, Message("Loaded from {path}", PathArg(args), <<>>)),
                         fs)
            ELSE Handled(p, Returned(FALSE, Message("Failed to load: {e}", PathArg(args),
                                                    <<>>)), fs)
      [] cmd \in {"quit", "exit"} -> Handled(p, Returned(TRUE, Message("Goodbye!", "", <<>>)), fs)
      [] OTHER -> Handled(p, Returned(FALSE, Message("Unknown command.", "", <<>>)), fs)

\* handle_command comparing the first word as it was typed
handle_command_exact(p, command, fs, t) ==
    IF split(command) = <<>> THEN Handled(p, Returned(FALSE, Message("", "", <<>>)), fs)
    ELSE handle_verb(p, Head(split(command)), Tail(split(command)), fs, t)

handle_command(p, command, fs, t) ==
    IF split(command) = <<>> THEN Handled(p, Returned(FALSE, Message("", "", <<>>)), fs)
    ELSE handle_verb(p, lower(Head(split(command))), Tail(split(command)), fs, t)

\* the verbs handle_command knows
Verbs == {"status", "feed", "play", "sleep", "save", "load", "quit", "exit"}

\* the command lines typed
CommandLines ==
    {<<>>, <<" ">>, <<"status">>, <<"Status">>, <<"feed">>, <<"feed", " ", "30">>,
     <<"FEED", " ", "30">>, <<" ", "feed", " ", "-1000", " ">>, <<"feed", " ", "abc">>,
     <<"play">>, <<"play", " ", "15">>, <<"sleep">>, <<"sleep", " ", "3">>,
     <<"save">>, <<"save", " ", "old.json">>, <<"load">>, <<"load", " ", "old.json">>,
     <<"load", " ", "none.json">>, <<"quit">>, <<"exit">>, <<"dance">>,
     <<"Dance", " ", "30">>, <<"clean">>, <<"30">>, <<" ", "feeding", " ", "30">>}

\* main() starts with Pet(); handle_command takes any Pet.  The files found at
\* the start: none under pet.json, and under old.json the record of the test's
\* Pet, of a dead Pet, of an older schema, or a file that does not load
CliInit ==
    /\ pet \in {DefaultPet, CornerPet, DeadPet}
    /\ prev = pet
    /\ now = 0
    /\ op = "init"
    /\ arg = 0
    /\ ret = "none"
    /\ rec = [key \in {} |-> JNull]
    /\ origin = IF pet \in DefaultPets THEN "default" ELSE "constructed"
    /\ prev_origin = origin
    /\ steps = 0
    /\ polls = <<>>
    /\ line = <<>>
    /\ reply = Returned(FALSE, Message("", "", <<>>))
    /\ \E old \in
           {File([name |-> JStr("Test"), hunger |-> JInt(20), happiness |-> JInt(40),
                  energy |-> JInt(30), alive |-> JBool(TRUE), sick |-> JBool(TRUE),
                  cumulative_play_seconds |-> JInt(600), care_score |-> JInt(7),
                  last_cared |-> JIso(0 - 60), litter_dirt |-> JInt(20),
                  last_tick |-> JIso(0 - 60)]),
            File([BaseRecord EXCEPT !.alive = JBool(FALSE), !.hunger = JInt(70),
                                    !.last_cared = JIso(0 - 60)]),
            File([name |-> JStr("Test"), hunger |-> JInt(60), happiness |-> JInt(40),
                  energy |-> JInt(30)]),
            File([BaseRecord EXCEPT !.hunger = JNull])} :
          files = ("pet.json" :> NoFile) @@ ("old.json" :> old)
    /\ UnusedWeb

\* one turn of the loop of main: a line is read and handled; the loop ends
\* with quit, and with an exception handle_command lets through
Command(command) ==
    /\ steps < MaxSteps
    /\ ~reply.quit /\ ~reply.raised
    /\ \E r \in {handle_command(pet, command, files, now)} :
          /\ pet' = r.pet
          /\ reply' = r.reply
          /\ files' = r.files
          /\ ret' = IF r.reply.raised THEN "raise" ELSE "none"
    /\ line' = command
    /\ prev' = pet
    /\ prev_origin' = origin
    /\ op' = "handle_command"
    /\ arg' = 0
    /\ steps' = steps + 1
    /\ UNCHANGED <<now, rec, origin, polls, webvars>>

CliSpec == CliInit /\ [][\E command \in CommandLines : Command(command)]_vars

(***************************************************************************)
(* A client that polls: tick_realtime is called again and again on a Pet   *)
(* on which nothing else is done, the clock advancing between the calls.   *)
(***************************************************************************)
\* calls per behaviour
MaxPolls == 4

PollInit ==
    /\ FrontEndsIdle
    /\ pet = DefaultPet
    /\ prev = pet
    /\ now = 0
    /\ op = "init"
    /\ arg = 0
    /\ ret = "none"
    /\ rec = [key \in {} |-> JNull]
    /\ origin = "default"
    /\ prev_origin = origin
    /\ steps = 0

\* the client waits and calls tick_realtime
Poll(seconds) ==
    /\ Len(polls) < MaxPolls
    /\ now' = now + seconds
    /\ pet' = tick_realtime(pet, now + seconds)
    /\ polls' = Append(polls, Polled(pet, now + seconds))
    /\ prev' = pet
    /\ prev_origin' = origin
    /\ op' = "tick_realtime"
    /\ arg' = seconds
    /\ ret' = "none"
    /\ steps' = steps + 1
    /\ UNCHANGED <<rec, origin, clivars, webvars>>

\* the calls come 0, 30, 59, 60 or 90 seconds after one another
PollSpec == PollInit /\ [][\E seconds \in {0, 30, 59, 60, 90} : Poll(seconds)]_vars

(***************************************************************************)
(* A timer that ticks: tick(m) is called again and again, with one m, on a *)
(* Pet on which nothing else is done, as the timer of gui.py does.  arg is *)
(* the m of the timer; the clock is counted within the minute.             *)
(***************************************************************************)
\* the periods of the timer, in the minutes tick is given; 5 is TICK_MS // 1000
TimerInit ==
    /\ FrontEndsIdle
    /\ pet = DefaultPet
    /\ prev = pet
    /\ now = 0
    /\ op = "init"
    /\ arg \in {1, 5, 11, 12, 15, 30, 60, 119}
    /\ ret = "none"
    /\ rec = [key \in {} |-> JNull]
    /\ origin = "default"
    /\ prev_origin = origin
    /\ steps = 0

\* the timer expires: TICK_MS, five seconds, after it was set; the clock is
\* counted within the minute, tick does not read it
TimerFires == now' = (now + 5) % 60

\* _tick: self.pet.tick(m), and the next tick is scheduled
TimerTick ==
    /\ TimerFires
    /\ pet' = tick(pet, arg)
    /\ prev' = pet
    /\ op' = "tick"
    /\ UNCHANGED <<arg, ret, rec, origin, prev_origin, steps, polls, clivars, webvars>>

\* the timer fires again and again
TimerSpec == TimerInit /\ [][TimerTick]_vars /\ WF_now(TimerFires)

(***************************************************************************)
(* The web front end of src/tomodachi/web.py: one global _pet, and request *)
(* threads (app.run(threaded=True)) that each run one endpoint, statement  *)
(* by statement.  A call of a Pet method is taken as one step; the         *)
(* interpreter may switch threads between any two steps.                   *)
(***************************************************************************)
\* requests per behaviour
MaxRequests == 3

\* the endpoints that act on the pet, and the Pet method each one calls; an
\* instance on the heap is the Pet and the function that constructed it
MethodOf ==
    [feed |-> "feed", play |-> "play", sleep |-> "sleep", clean |-> "clean_litter",
     discipline |-> "discipline", attention |-> "give_attention",
     sickcare |-> "sick_care"]

\* the payloads returned
OkPayload == "status: ok"
DeadPayload == "error: {name} is no longer alive."
TiredPayload == "error: {name} is too tired to play."

\* the call p.method(...) of an action endpoint at the instant t, with the
\* arguments web.py gives it: [pet |-> the Pet afterwards, ret |-> what play
\* returned, TRUE for the others]
call_method(endpoint, p, t) ==
    CASE endpoint = "feed"       -> [pet |-> feed(p, 30, t), ret |-> TRUE]
      [] endpoint = "play"       -> play(p, 15, t)
      [] endpoint = "sleep"      -> [pet |-> sleep(p, 3, t), ret |-> TRUE]
      [] endpoint = "clean"      -> [pet |-> clean_litter(p, t), ret |-> TRUE]
      [] endpoint = "discipline" -> [pet |-> discipline(p, t), ret |-> TRUE]
      [] endpoint = "attention"  -> [pet |-> give_attention(p, t), ret |-> TRUE]
      [] endpoint = "sickcare"   -> [pet |-> sick_care(p, t), ret |-> TRUE]

\* an endpoint that goes on to the action whatever the pet is
rejects_never(alive) == FALSE

\* if not pet.alive: return jsonify({'error': ...})
rejects(alive) == ~alive

WebInit ==
    /\ pet = DefaultPet
    /\ prev = pet
    /\ now = 0
    /\ op = "init"
    /\ arg = 0
    /\ ret = "none"
    /\ rec = [key \in {} |-> JNull]
    /\ origin = "default"
    /\ prev_origin = origin
    /\ steps = 0
    /\ polls = <<>>
    /\ line = <<>>
    /\ reply = Returned(FALSE, Message("", "", <<>>))
    /\ files = [path \in {"pet.json"} |-> NoFile]
    /\ UnusedWeb

\* what no step of a request touches
WebFrame == UNCHANGED <<pet, prev, now, op, arg, ret, rec, origin, prev_origin, polls, clivars>>

\* a request for an action endpoint arrives and is given to a thread
Begin(thread, endpoint) ==
    /\ steps < MaxRequests
    /\ pc[thread] \in {"idle", "done"}
    /\ steps' = steps + 1
    /\ req' = [req EXCEPT ![thread] = [NoRequest EXCEPT !.endpoint = endpoint]]
    /\ pc' = [pc EXCEPT ![thread] = "get_pet"]
    /\ UNCHANGED <<heap, global_pet>>
    /\ WebFrame

\* get_pet, line 31: if _pet is None
GetPetTest(thread) ==
    /\ pc[thread] = "get_pet"
    /\ pc' = [pc EXCEPT ![thread] = IF global_pet = 0 THEN "new_pet" ELSE "return_pet"]
    /\ UNCHANGED <<heap, global_pet, req, steps>>
    /\ WebFrame

\* get_pet, line 32: _pet = Pet()
GetPetCreate(thread) ==
    /\ pc[thread] = "new_pet"
    /\ heap' = Append(heap, [pet |-> DefaultPet, by |-> "get_pet"])
    /\ global_pet' = Len(heap) + 1
    /\ pc' = [pc EXCEPT ![thread] = "return_pet"]
    /\ UNCHANGED <<req, steps>>
    /\ WebFrame

\* get_pet, line 33: return _pet; the endpoint's pet = get_pet()
GetPetReturn(thread) ==
    /\ pc[thread] = "return_pet"
    /\ req' = [req EXCEPT ![thread].pet = global_pet]
    /\ pc' = [pc EXCEPT ![thread] = "tick_realtime"]
    /\ UNCHANGED <<heap, global_pet, steps>>
    /\ WebFrame

\* pet.tick_realtime()
CatchUp(thread) ==
    /\ pc[thread] = "tick_realtime"
    /\ heap' = [heap EXCEPT ![req[thread].pet].pet = tick_realtime(@, now)]
    /\ req' = [req EXCEPT ![thread].calls = Append(@, "tick_realtime")]
    /\ pc' = [pc EXCEPT ![thread] = "if_alive"]
    /\ UNCHANGED <<global_pet, steps>>
    /\ WebFrame

\* if not pet.alive: return jsonify({'error': ...})
IfAlive(thread) ==
    /\ pc[thread] = "if_alive"
    /\ \E alive \in {heap[req[thread].pet].pet.alive} :
          /\ req' = [req EXCEPT ![thread].alive = alive,
                                ![thread].response =
                                    IF rejects(alive) THEN DeadPayload ELSE @]
          /\ pc' = [pc EXCEPT ![thread] = IF rejects(alive) THEN "done" ELSE "action"]
    /\ UNCHANGED <<heap, global_pet, steps>>
    /\ WebFrame

\* the action method, and the payload returned after it
Act(thread) ==
    /\ pc[thread] = "action"
    /\ \E r \in {call_method(req[thread].endpoint, heap[req[thread].pet].pet, now)} :
          /\ heap' = [heap EXCEPT ![req[thread].pet].pet = r.pet]
          /\ req' = [req EXCEPT ![thread].calls = Append(@, MethodOf[req[thread].endpoint]),
                                ![thread].ok = r.ret,
                                ![thread].response =
                                    IF req[thread].endpoint = "play" /\ ~r.ret
                                    THEN TiredPayload ELSE OkPayload]
    /\ pc' = [pc EXCEPT ![thread] = "done"]
    /\ UNCHANGED <<global_pet, steps>>
    /\ WebFrame

\* /api/load: _pet = Pet.from_dict(data), in one statement
LoadPet(thread, data) ==
    /\ steps < MaxRequests
    /\ pc[thread] \in {"idle", "done"}
    /\ from_dict(data, now).ok
    /\ steps' = steps + 1
    /\ heap' = Append(heap, [pet |-> from_dict(data, now).pet, by |-> "load"])
    /\ global_pet' = Len(heap) + 1
    /\ req' = [req EXCEPT ![thread] = [NoRequest EXCEPT !.endpoint = "load",
                                                        !.response = OkPayload]]
    /\ pc' = [pc EXCEPT ![thread] = "done"]
    /\ WebFrame

\* a request thread takes its next step; the records posted to /api/load are a
\* dead pet's, and a living pet's too tired to play
WebNext ==
    \E thread \in Threads :
        \/ \E endpoint \in DOMAIN MethodOf : Begin(thread, endpoint)
        \/ GetPetTest(thread)
        \/ GetPetCreate(thread)
        \/ GetPetReturn(thread)
        \/ CatchUp(thread)
        \/ IfAlive(thread)
        \/ Act(thread)
        \/ \E data \in {[BaseRecord EXCEPT !.alive = JBool(FALSE), !.hunger = JInt(70),
                                             !.last_cared = JIso(now - 60)],
                          [BaseRecord EXCEPT !.energy = JInt(4),
                                             !.last_cared = JIso(now)]} :
              LoadPet(thread, data)

WebSpec == WebInit /\ [][WebNext]_vars

(***************************************************************************)
(* Properties.  prev is the Pet before the last operation, op the          *)
(* operation, arg its argument and ret what it returned, so a statement    *)
(* about one call is a statement about one state.                          *)
(***************************************************************************)
\* the seven caring actions
CaringOps ==
    {"feed", "play", "sleep", "clean_litter", "discipline", "give_attention",
     "sick_care"}

InRange(p) ==
    \A f \in {"hunger", "happiness", "energy", "litter_dirt", "care_score"} :
        p[f] \in 0..100

\* seconds since p was last cared for, for a last_cared that parses
Elapsed(p) == now - fromisoformat(p.last_cared)

\* C1: starting from a default-constructed Pet, after any sequence of feed,
\* play, sleep, clean_litter, discipline, give_attention, sick_care, tick and
\* tick_realtime calls with arbitrary integer arguments, each of hunger,
\* happiness, energy, litter_dirt and care_score is an integer in 0..100.
C1_ClampInvariant == origin = "default" => InRange(pet)

\* a very negative feed has pushed hunger to the upper end of the range
C1_Witness ==
    /\ origin = "default" /\ op = "feed" /\ arg = 0 - BigArg
    /\ prev.hunger = 50 /\ pet.hunger = 100

\* C2: a living pet with care_score = 0 whose last_cared lies more than 3 days
\* in the past has alive = false after the next caring action returns.
C2_DeathAfterAction ==
    (/\ op \in CaringOps /\ ret # "false"
     /\ prev.alive /\ prev.care_score = 0 /\ Parses(prev.last_cared)
     /\ Elapsed(prev) > NeglectSeconds(0))
    => ~pet.alive

\* such a pet has been fed and lives on, last cared for at this instant
C2_Witness ==
    /\ op = "feed" /\ prev.alive /\ prev.care_score = 0 /\ Parses(prev.last_cared)
    /\ Elapsed(prev) > NeglectSeconds(0)
    /\ pet.alive /\ pet.last_cared = isoformat(now)

\* C3: check_alive on a living pet with a parseable last_cared, also when
\* from_dict runs it on a loaded record, sets alive = false if and only if
\* now - last_cared >= 259200 + 23328 * care_score seconds, the boundary
\* included; below the threshold the pet stays alive and no other field changes.
C3_MortalityThreshold ==
    /\ (op = "check_alive" /\ prev.alive /\ Parses(prev.last_cared))
       => /\ pet.alive = ~(Elapsed(prev) >= NeglectSeconds(prev.care_score))
          /\ Elapsed(prev) < NeglectSeconds(prev.care_score) => pet = prev
    /\ (op = "load" /\ ret = "none" /\ kwargs(rec).pet.alive
        /\ Parses(kwargs(rec).pet.last_cared))
       => /\ pet.alive = ~(Elapsed(kwargs(rec).pet)
                            >= NeglectSeconds(kwargs(rec).pet.care_score))
          /\ Elapsed(kwargs(rec).pet) < NeglectSeconds(kwargs(rec).pet.care_score)
             => pet = kwargs(rec).pet

\* check_alive has run exactly at the documented end of the neglect window of
\* a pet with care_score 53, and the pet lives
C3_Witness ==
    /\ op = "check_alive" /\ prev.alive /\ prev.care_score = 53
    /\ Parses(prev.last_cared) /\ Elapsed(prev) = NeglectSeconds(53)
    /\ pet.alive

\* C4: for a pet with alive = false, each of feed, play, sleep, clean_litter,
\* discipline, give_attention, sick_care, add_play_seconds and tick, with any
\* argument, leaves every field as it was, and play returns false.
C4_DeadPetInert ==
    (op \in CaringOps \cup {"add_play_seconds", "tick"} /\ ~prev.alive)
    => /\ pet = prev
       /\ op = "play" => ret = "false"

\* a dead pet has been put to sleep for a very long time
C4_Witness ==
    /\ op = "sleep" /\ arg = BigArg /\ ~prev.alive
    /\ prev.energy < 100 /\ pet.energy = prev.energy

\* C5: once alive is false, no attribute of the pet (everything but alive)
\* changes under the seven actions, tick, and tick_realtime.
C5_DeadPetFrozen ==
    (op \in CaringOps \cup {"tick", "tick_realtime"} /\ ~prev.alive)
    => \A f \in DOMAIN prev \ {"alive"} : pet[f] = prev[f]

\* tick_realtime has moved the last_tick of a dead pet
C5_Witness ==
    /\ op = "tick_realtime" /\ ~prev.alive /\ ~pet.alive
    /\ pet.last_tick = isoformat(now) /\ pet.last_tick # prev.last_tick

\* C6: alive never changes from false to true under any action, tick,
\* tick_realtime or check_alive, and the only step that changes alive from
\* true to false is check_alive.
C6_DeathTerminal ==
    op \in CaringOps \cup {"add_play_seconds", "tick", "tick_realtime", "check_alive"}
    => /\ ~prev.alive => ~pet.alive
       /\ (prev.alive /\ ~pet.alive) => op = "check_alive"

\* check_alive has found a pet neglected and set alive to false
C6_Witness == op = "check_alive" /\ prev.alive /\ ~pet.alive

\* C7: for a living pet and any integer minutes, if energy < max(1, minutes // 2)
\* then play(minutes) returns false and every field is unchanged.
C7_RejectedPlay ==
    (op = "play" /\ prev.alive /\ prev.energy < PyMax(1, arg \div 2))
    => (ret = "false" /\ pet = prev)

\* play(10) has been refused to a living pet with energy 4
C7_Witness ==
    /\ op = "play" /\ arg = 10 /\ prev.alive /\ prev.energy = 4
    /\ ret = "false"

\* C8, as the code has it: for every living pet with energy >= 5 and its
\* bounded attributes in 0..100, play(10) returns true, energy is lower by 5,
\* happiness is higher by 5 and hunger by 3, each capped at 100 (so one that
\* is already 100 stays 100 and does not grow).
C8_SuccessfulPlayCapped ==
    (op = "play" /\ arg = 10 /\ prev.alive /\ prev.energy >= 5 /\ InRange(prev))
    => /\ ret = "true"
       /\ pet.energy = prev.energy - 5
       /\ pet.happiness = PyMin(100, prev.happiness + 5)
       /\ pet.hunger = PyMin(100, prev.hunger + 3)

\* C8, as stated: play(10) returns true and afterwards happiness is strictly
\* greater, energy lower by at least 1, and hunger strictly greater.
C8_SuccessfulPlayStrict ==
    (op = "play" /\ arg = 10 /\ prev.alive /\ prev.energy >= 5 /\ InRange(prev))
    => /\ ret = "true"
       /\ pet.happiness > prev.happiness
       /\ pet.energy <= prev.energy - 1
       /\ pet.hunger > prev.hunger

\* play(10) has succeeded on a pet whose happiness was already 100
C8_Witness ==
    /\ op = "play" /\ arg = 10 /\ prev.alive /\ prev.energy >= 5 /\ InRange(prev)
    /\ prev.happiness = 100 /\ ret = "true" /\ pet.happiness = 100

\* C9, as the code has it: for a pet reached from a default Pet,
\* from_dict(to_dict(pet)) at the same instant returns, and every field equals
\* that of pet except that last_cared is the instant of loading when the pet
\* is alive and was never cared for, and alive is false when the pet is alive
\* and its neglect window has passed.
C9_RoundTripChecked ==
    (op = "load" /\ rec = to_dict(prev) /\ prev_origin = "default")
    => /\ ret = "none"
       /\ \A f \in DOMAIN prev \ {"last_cared", "alive"} : pet[f] = prev[f]
       /\ pet.last_cared = IF prev.alive /\ prev.last_cared = NoneTs
                           THEN isoformat(now) ELSE prev.last_cared
       /\ (\/ ~prev.alive
           \/ ~Parses(prev.last_cared)
           \/ Elapsed(prev) < NeglectSeconds(prev.care_score))
          => pet.alive = prev.alive
       /\ (/\ prev.alive
           /\ Parses(prev.last_cared)
           /\ Elapsed(prev) > NeglectSeconds(prev.care_score))
          => ~pet.alive

\* C9, as stated: from_dict(to_dict(pet)) at the same instant has every field
\* equal to that of pet.
C9_RoundTripExact ==
    (op = "load" /\ rec = to_dict(prev) /\ prev_origin = "default")
    => (ret = "none" /\ pet = prev)

\* a living, neglected pet reached from a default Pet has been saved and
\* loaded, and the loaded pet is dead
C9_Witness ==
    /\ op = "load" /\ rec = to_dict(prev) /\ prev_origin = "default"
    /\ prev.alive /\ Parses(prev.last_cared)
    /\ Elapsed(prev) > NeglectSeconds(prev.care_score)
    /\ ~pet.alive

\* C10: from_dict on a record in which hunger, care_score or litter_dirt holds
\* null or a non-numeric string returns a Pet with that field at its default
\* instead of raising an error.
C10_MalformedDefaulted ==
    \A key \in IntKeys :
        (op = "load" /\ key \in DOMAIN rec /\ rec[key] \in WrongShapes)
        => (ret = "none" /\ pet[key] = DefaultPet[key])

\* from_dict has raised on a record whose hunger is null
C10_Witness ==
    /\ op = "load" /\ rec = [BaseRecord EXCEPT !.hunger = JNull]
    /\ ret = "raise" /\ pet = prev

\* the value the field key takes from the record d: the record's value when
\* the key is present, the dataclass' default when it is absent
RecordValue(d, key) ==
    IF key \notin DOMAIN d THEN DefaultPet[key]
    ELSE CASE key = "name" -> d[key].s
           [] key \in {"alive", "sick"} -> PyBool(d[key])
           [] key \in {"last_cared", "last_tick"} -> TsOfJson(d[key])
           [] OTHER -> PyInt(d[key]).v

Malformed(ts) == ts \in {BadTs, EmptyTs}

\* C12, as the code has it: when last_cared of a living pet holds a value that
\* does not parse as a timestamp, check_alive, called directly or by from_dict,
\* raises no error and leaves alive = true and every other field unchanged,
\* except that a value that is falsy (the empty string, 0) counts as unset and
\* is replaced by now; a caring action on such a pet raises no error and
\* leaves it alive.
C12_MalformedConservative ==
    /\ (op = "check_alive" /\ prev.alive /\ Malformed(prev.last_cared))
       => pet = IF Truthy(prev.last_cared) THEN prev ELSE update_last_cared(prev, now)
    /\ (op = "load" /\ kwargs(rec).ok /\ kwargs(rec).pet.alive
        /\ Malformed(kwargs(rec).pet.last_cared))
       => /\ ret = "none"
          /\ pet = IF Truthy(kwargs(rec).pet.last_cared) THEN kwargs(rec).pet
                    ELSE update_last_cared(kwargs(rec).pet, now)
    /\ (op \in CaringOps /\ prev.alive /\ Malformed(prev.last_cared))
       => (ret # "raise" /\ pet.alive)

\* C12, as stated: check_alive raises no error and leaves alive = true and
\* every other field unchanged.
C12_MalformedUnchanged ==
    /\ (op = "check_alive" /\ prev.alive /\ Malformed(prev.last_cared))
       => pet = prev
    /\ (op = "load" /\ kwargs(rec).ok /\ kwargs(rec).pet.alive
        /\ Malformed(kwargs(rec).pet.last_cared))
       => (ret = "none" /\ pet = kwargs(rec).pet)
    /\ (op \in CaringOps /\ prev.alive /\ Malformed(prev.last_cared))
       => (ret # "raise" /\ pet.alive)

\* check_alive has run on a living pet whose last_cared is text that does not
\* parse, and has changed nothing
C12_Witness ==
    /\ op = "check_alive" /\ prev.alive /\ prev.last_cared = BadTs
    /\ pet = prev

\* the operations on a Pet: the seven caring actions and the four others
PetOps == CaringOps \cup {"add_play_seconds", "tick", "tick_realtime", "check_alive"}

\* C13: sick changes from false to true only in a tick step (directly or
\* through tick_realtime) and from true to false only in a sick_care step;
\* feed, play, sleep, clean_litter, discipline and give_attention never change
\* sick.
C13_SickTransitions ==
    op \in PetOps
    => /\ (~prev.sick /\ pet.sick) => op \in {"tick", "tick_realtime"}
       /\ (prev.sick /\ ~pet.sick) => op = "sick_care"
       /\ op \in CaringOps \ {"sick_care"} => pet.sick = prev.sick

\* a tick has made a healthy pet sick
C13_Witness == op = "tick" /\ prev.alive /\ ~prev.sick /\ pet.sick

\* the sickness conditions on the values p holds
SickConditions(p) == p.hunger >= 90 \/ p.energy <= 5 \/ p.litter_dirt >= 90

\* C14: after any tick on a living pet whose values after the tick satisfy
\* hunger >= 90 or energy <= 5 or litter_dirt >= 90, sick is true; and after
\* sick_care on a living pet sick is false whatever hunger, energy and
\* litter_dirt are, with energy raised by 15 and happiness by 5 (clamped).
C14_SicknessOnsetAndCure ==
    /\ (op = "tick" /\ prev.alive /\ SickConditions(pet)) => pet.sick
    /\ (op = "tick_realtime" /\ prev.alive /\ Parses(prev.last_tick)
        /\ now - fromisoformat(prev.last_tick) >= 60 /\ SickConditions(pet))
       => pet.sick
    /\ (op = "sick_care" /\ prev.alive)
       => /\ ~pet.sick
          /\ pet.energy = clamp(prev.energy + 15)
          /\ pet.happiness = clamp(prev.happiness + 5)

\* sick_care has cured a sick pet whose hunger is still at 100
C14_Witness ==
    /\ op = "sick_care" /\ prev.alive /\ prev.sick /\ prev.hunger = 100
    /\ ~pet.sick /\ pet.hunger = 100 /\ pet.energy = prev.energy + 15

\* a caring action that went through: the pet was alive and play did not refuse
Succeeded == op \in CaringOps /\ prev.alive /\ ret # "false"

C16_NeglectClockReset ==
    /\ Succeeded => pet.last_cared = isoformat(now)
    /\ (op = "discipline" /\ prev.alive)
       => pet.happiness = clamp(prev.happiness - 5)

\* discipline on a pet last cared for earlier: happiness down, clock reset
C16_Witness ==
    /\ op = "discipline" /\ prev.alive
    /\ Parses(prev.last_cared) /\ fromisoformat(prev.last_cared) < now
    /\ pet.last_cared = isoformat(now)
    /\ pet.happiness = prev.happiness - 5

\* C17: cumulative_play_seconds is monotonically non-decreasing: no call of
\* play or add_play_seconds, whatever its integer argument, and no other
\* operation on a Pet leaves it smaller than it was.
C17_PlaySecondsMonotone ==
    op \in PetOps => pet.cumulative_play_seconds >= prev.cumulative_play_seconds

\* a negative duration has been subtracted from the counter
C17_Witness ==
    /\ op \in {"play", "add_play_seconds"} /\ prev.alive /\ arg < 0
    /\ pet.cumulative_play_seconds = prev.cumulative_play_seconds + arg * (IF op = "play" THEN 60 ELSE 1)
    /\ pet.cumulative_play_seconds < prev.cumulative_play_seconds

\* the whole minutes in a span of seconds, none for a span that is not positive
WholeMinutes(seconds) == IF seconds > 0 THEN seconds \div 60 ELSE 0

\* C18: tick_realtime with last_tick unset applies no tick and only sets
\* last_tick = now; with last_tick set it applies tick(e) once, e the whole
\* minutes between last_tick and now, when e > 0 and no tick when e <= 0; in
\* every case last_tick = now when the call returns.
C18_TickRealtimeProtocol ==
    op = "tick_realtime"
    => /\ \E e \in {IF Parses(prev.last_tick)
                    THEN WholeMinutes(now - fromisoformat(prev.last_tick)) ELSE 0} :
            pet = [(IF e > 0 THEN tick(prev, e) ELSE prev)
                      EXCEPT !.last_tick = isoformat(now)]
       /\ ~Truthy(prev.last_tick) => pet = [prev EXCEPT !.last_tick = isoformat(now)]

\* 7199 seconds after the last tick a living pet has been ticked by 119
\* minutes: hunger 88 has become 97, and last_tick is the time of the call
C18_Witness ==
    /\ op = "tick_realtime" /\ prev.alive /\ Parses(prev.last_tick)
    /\ now - fromisoformat(prev.last_tick) = 7199
    /\ prev.hunger = 88 /\ pet.hunger = 97
    /\ pet.last_tick = isoformat(now)

\* C19: for a living pet and any integer amount, feed(amount) sets hunger to
\* clamp(hunger - amount) and happiness to clamp(happiness + 5), and leaves
\* energy, litter_dirt, sick, cumulative_play_seconds, last_tick and alive
\* unchanged; feed(30) at hunger 60 gives hunger <= 40.
C19_FeedEffect ==
    (op = "feed" /\ prev.alive)
    => /\ pet.hunger = clamp(prev.hunger - arg)
       /\ pet.happiness = clamp(prev.happiness + 5)
       /\ \A f \in {"energy", "litter_dirt", "sick", "cumulative_play_seconds",
                   "last_tick", "alive", "name"} : pet[f] = prev[f]
       /\ (arg = 30 /\ prev.hunger = 60) => pet.hunger <= 40

\* feed(30) on the pet of the test: hunger 60 -> 30, happiness 40 -> 45
C19_Witness ==
    /\ op = "feed" /\ arg = 30 /\ prev.alive
    /\ prev.hunger = 60 /\ prev.happiness = 40
    /\ pet.hunger = 30 /\ pet.happiness = 45 /\ pet.energy = prev.energy

\* the Pet after sleep(hours) on the Pet p, for each of the hours
Slept(p) == [hours \in (0 - MaxHours)..MaxHours |-> sleep(p, hours, now)]

\* C20: sleep is monotone in its argument: for every living pet and all
\* integers h1 <= h2 of the range, negatives included, energy after sleep(h2)
\* is >= energy after sleep(h1) and hunger after sleep(h2) is >= hunger after
\* sleep(h1), both applied to the same starting state.
C20_SleepMonotone ==
    pet.alive
    => \A slept \in {Slept(pet)} :
           \A h1, h2 \in DOMAIN slept :
               h1 <= h2 => /\ slept[h2].energy >= slept[h1].energy
                           /\ slept[h2].hunger >= slept[h1].hunger

\* sleep(3) has been applied to a living pet; from the same state a sleep of
\* -1 hours gives strictly less energy and strictly less hunger
C20_Witness ==
    /\ op = "sleep" /\ arg = 3 /\ prev.alive
    /\ pet.energy = Slept(prev)[3].energy /\ pet.hunger = Slept(prev)[3].hunger
    /\ Slept(prev)[0 - 1].energy < pet.energy
    /\ Slept(prev)[0 - 1].hunger < pet.hunger

\* q(k) = (k * minutes) div 60
TickQuota(k, minutes) == (k * minutes) \div 60

\* C24: for a living pet and minutes >= 1, with q(k) = (k * minutes) div 60,
\* tick(minutes) sets hunger = clamp(hunger + q(5)), energy = clamp(energy -
\* q(5)), litter_dirt = clamp(litter_dirt + q(4)) and happiness =
\* clamp(clamp(happiness - q(2)) - p), p being q(3) for a new litter_dirt >= 80,
\* q(1) for a new litter_dirt in 50..79 and 0 otherwise: the tier is chosen
\* from the litter value after this tick's increment.
C24_TickArithmetic ==
    (op = "tick" /\ prev.alive /\ arg >= 1)
    => /\ pet.hunger = clamp(prev.hunger + TickQuota(5, arg))
       /\ pet.energy = clamp(prev.energy - TickQuota(5, arg))
       /\ pet.litter_dirt = clamp(prev.litter_dirt + TickQuota(4, arg))
       /\ pet.happiness = clamp(clamp(prev.happiness - TickQuota(2, arg))
                                - (IF pet.litter_dirt >= 80 THEN TickQuota(3, arg)
                                   ELSE IF pet.litter_dirt >= 50 THEN TickQuota(1, arg)
                                   ELSE 0))

\* an hour's tick takes the litter box from 78 to 82 and happiness from 50 to
\* 45: the penalty of the tier of 82, not of 78
C24_Witness ==
    /\ op = "tick" /\ arg = 60 /\ prev.alive
    /\ prev.litter_dirt = 78 /\ pet.litter_dirt = 82
    /\ prev.happiness = 50 /\ pet.happiness = 45

\* C25: tick is passive: for every pet and every minutes value, tick(minutes)
\* leaves care_score, last_cared, cumulative_play_seconds, alive, name and
\* last_tick unchanged and performs no mortality evaluation.
C25_TickPassive ==
    op = "tick"
    => \A f \in {"care_score", "last_cared", "cumulative_play_seconds", "alive", "name",
                "last_tick"} : pet[f] = prev[f]

\* a pet neglected beyond its threshold has been ticked and is still alive
C25_Witness ==
    /\ op = "tick" /\ arg = 60 /\ prev.alive /\ Parses(prev.last_cared)
    /\ IntGeF(Elapsed(prev), ThresholdSeconds(prev))
    /\ pet.alive /\ pet.hunger = prev.hunger + 5 /\ pet.last_cared = prev.last_cared

\* the four attributes tick lets decay
DecayFields == {"hunger", "happiness", "energy", "litter_dirt"}

\* C29: for a living pet and every minutes <= 0, tick(minutes) leaves hunger,
\* happiness, energy and litter_dirt at their values cut to 0..100, which for
\* a pet whose attributes are in range is exactly unchanged, and only
\* re-evaluates the sickness condition on those values; nothing else is
\* written.
C29_NonPositiveTick ==
    (op = "tick" /\ prev.alive /\ arg <= 0)
    => /\ \A f \in DecayFields : pet[f] = clamp(prev[f])
       /\ InRange(prev) => \A f \in DecayFields : pet[f] = prev[f]
       /\ pet.sick = (prev.sick \/ SickConditions(pet))
       /\ \A f \in DOMAIN prev \ (DecayFields \cup {"sick"}) : pet[f] = prev[f]

\* C29 as stated: for a living pet and every minutes <= 0, tick(minutes)
\* leaves hunger, happiness, energy and litter_dirt exactly unchanged and
\* only re-evaluates the sickness condition on the unchanged values.
C29_NonPositiveTickStated ==
    (op = "tick" /\ prev.alive /\ arg <= 0)
    => /\ \A f \in DecayFields : pet[f] = prev[f]
       /\ pet.sick = (prev.sick \/ SickConditions(prev))

\* a tick of zero minutes on a healthy pet of hunger 100: nothing moves, and
\* the pet is sick
C29_Witness ==
    /\ op = "tick" /\ arg = 0 /\ prev.alive /\ ~prev.sick /\ prev.hunger = 100
    /\ pet.hunger = 100 /\ pet.energy = prev.energy /\ pet.sick

\* C28: in every state of a living pet reachable from a default Pet by
\* actions and ticks, hunger >= 90 or energy <= 5 or litter_dirt >= 90 implies
\* sick = true, the states reached by an action with no tick after it included.
C28_SicknessInvariant ==
    (origin = "default" /\ pet.alive /\ SickConditions(pet)) => pet.sick

\* sleep has raised the hunger of a default Pet to 90 and over, and the pet is
\* not sick
C28_Witness ==
    /\ origin = "default" /\ op = "sleep" /\ arg > 0 /\ prev.alive /\ prev.hunger < 90
    /\ pet.alive /\ pet.hunger >= 90 /\ ~pet.sick

\* the words of the last command line, and whether it was taken for a verb
Typed == split(line)

\* C23: for every command line whose first word, compared without regard to
\* case, is not one of status, feed, play, sleep, save, load, quit, exit,
\* handle_command returns (False, "Unknown command.") and leaves every field
\* of the pet unchanged, and for no other line does it return that message;
\* an empty line returns (False, "") with the pet unchanged.
C23_UnknownVerb ==
    op = "handle_command"
    => /\ (Typed # <<>> /\ lower(Head(Typed)) \notin Verbs)
          => /\ reply = Returned(FALSE, Message("Unknown command.", "", <<>>))
             /\ pet = prev
       /\ (Typed # <<>> /\ lower(Head(Typed)) \in Verbs) => reply.msg # Message("Unknown command.", "", <<>>)
       /\ Typed = <<>> => reply = Returned(FALSE, Message("", "", <<>>)) /\ pet = prev

\* C23 as stated: for every command line whose first word is not one of
\* status, feed, play, sleep, save, load, quit, exit, handle_command returns
\* (False, "Unknown command.") and leaves every field of the pet unchanged; an
\* empty line returns (False, "") with the pet unchanged.
C23_UnknownVerbStated ==
    op = "handle_command"
    => /\ (Typed # <<>> /\ Head(Typed) \notin Verbs)
          => /\ reply = Returned(FALSE, Message("Unknown command.", "", <<>>))
             /\ pet = prev
       /\ Typed = <<>> => reply = Returned(FALSE, Message("", "", <<>>)) /\ pet = prev

\* "Dance 30" has been answered with "Unknown command.", the pet as it was
C23_Witness ==
    /\ op = "handle_command" /\ Typed = <<"Dance", "30">>
    /\ reply = Returned(FALSE, Message("Unknown command.", "", <<>>)) /\ pet = prev /\ prev.alive

\* the last command was a load that succeeded
Loaded ==
    /\ op = "handle_command" /\ Typed # <<>> /\ lower(Head(Typed)) = "load"
    /\ reply.msg.text = "Loaded from {path}"

\* C30: after a successful load command every field of the in-memory pet
\* equals the field of the Pet deserialized from the file; a dead in-memory
\* pet is never left with alive = false and changed stats.
C30_LoadRestoresSnapshot ==
    Loaded => pet = load(PathArg(Tail(Typed)), files, now).pet

\* a dead pet has loaded the file of a living one: hunger 70 has become 20,
\* and the pet is still dead
C30_Witness ==
    /\ Loaded /\ ~prev.alive /\ prev.hunger = 70
    /\ load(PathArg(Tail(Typed)), files, now).pet.alive
    /\ ~pet.alive /\ pet.hunger = 20 /\ pet.care_score = prev.care_score

RECURSIVE SumMinutes(_)
\* the minutes passed to tick over a sequence of tick_realtime calls
SumMinutes(calls) ==
    IF calls = <<>> THEN 0 ELSE Head(calls).minutes + SumMinutes(Tail(calls))

\* C26: for any sequence of tick_realtime calls with non-decreasing now values
\* t0 <= ... <= tn and nothing in between, the minutes passed to tick sum to
\* the whole minutes between t0 and tn, however often the client polls.
C26_NoElapsedTimeLost ==
    polls # <<>>
    => SumMinutes(polls) = WholeMinutes(polls[Len(polls)].at - polls[1].at)

\* three calls 59 seconds apart: 118 seconds have passed, tick was never
\* called, and the pet is as it was but for last_tick
C26_Witness ==
    /\ Len(polls) = 3 /\ polls[1].at = 0 /\ polls[2].at = 59 /\ polls[3].at = 118
    /\ SumMinutes(polls) = 0
    /\ pet = [DefaultPet EXCEPT !.last_tick = isoformat(118)]

\* C27: a living pet driven only by repeated tick(m) calls with a fixed m >= 1
\* (the timer of the GUI has m = 5) eventually reaches hunger >= 90 and
\* sick = true.
C27_PeriodicTickProgress == <>(pet.hunger >= 90 /\ pet.sick)

\* the timer of the GUI has fired, tick(5), and the pet is as it was
C27_Witness == op = "tick" /\ arg = 5 /\ prev.alive /\ pet = prev /\ pet.hunger = 50

\* the thread is inside the sequence of an action endpoint: tick_realtime has
\* run on the pet, the action has not returned
Inside(thread) == pc[thread] \in {"if_alive", "action"}

\* C21: in the web front end at most one request at a time is inside a
\* tick_realtime-plus-action sequence on the Pet, and get_pet never creates
\* two Pet instances.
C21_WebMutualExclusion ==
    /\ Cardinality({thread \in Threads : Inside(thread)}) <= 1
    /\ Cardinality({i \in 1..Len(heap) : heap[i].by = "get_pet"}) <= 1

\* two requests are inside their sequences at once, each on a Pet of its own
\* that get_pet constructed; the one that is not _pet any more is fed in vain
C21_Witness ==
    /\ Inside(1) /\ Inside(2)
    /\ Cardinality({i \in 1..Len(heap) : heap[i].by = "get_pet"}) = 2
    /\ req[1].pet # req[2].pet
    /\ \E thread \in Threads : req[thread].pet # global_pet

\* C22: every action endpoint calls tick_realtime on the pet before the
\* action method; when the pet is dead after the catch-up it returns an error
\* payload and calls no action method, and the play endpoint returns an error
\* payload when play returns false.
C22_WebActionOrdering ==
    \A thread \in Threads :
        req[thread].endpoint \in DOMAIN MethodOf
        => /\ pc[thread] \in {"if_alive", "action", "done"}
              => Head(req[thread].calls) = "tick_realtime"
           /\ pc[thread] = "action" => req[thread].calls = <<"tick_realtime">>
           /\ pc[thread] = "done"
              => /\ req[thread].calls =
                        (IF req[thread].alive
                         THEN <<"tick_realtime", MethodOf[req[thread].endpoint]>>
                         ELSE <<"tick_realtime">>)
                 /\ req[thread].alive = heap[req[thread].pet].pet.alive
                 /\ ~req[thread].alive => req[thread].response = DeadPayload
                 /\ (req[thread].alive /\ req[thread].endpoint = "play" /\ ~req[thread].ok)
                    => req[thread].response = TiredPayload
                 /\ (req[thread].alive /\ (req[thread].endpoint # "play" \/ req[thread].ok))
                    => req[thread].response = OkPayload

\* a request to play has found the pet dead after the catch-up and returned the
\* error, play not called
C22_Witness ==
    \E thread \in Threads :
        /\ pc[thread] = "done" /\ req[thread].endpoint = "play"
        /\ ~heap[req[thread].pet].pet.alive
        /\ req[thread].calls = <<"tick_realtime">>
        /\ req[thread].response = DeadPayload

====
